---- MODULE Spec2Model ----
(***************************************************************************)
(* A model of app.py, the Streamlit dashboard "CO2 per Country".           *)
(*                                                                         *)
(* A table (pandas DataFrame) is a sequence of records, one per row, in    *)
(* row order.  A missing value (NaN) is the string NaN.  A per-capita      *)
(* value is an integer; a mean is the exact fraction [num, den] in lowest  *)
(* terms (floating-point rounding is not modelled).                        *)
(***************************************************************************)
EXTENDS Integers, Sequences, FiniteSets, TLC

VARIABLES
    co2_file,      \* content of data/CO2_per_capita.csv, or NoFile
    geo_file,      \* content of data/geo_data.csv, or NoFile
    cache,         \* st.cache_data: per cached function, its [key, val, msgs] entries
    runs,          \* executions of each cached function's body
    calls,         \* calls of each cached function
    pass,          \* number of render passes started
    pc,            \* position in main (or in the function under check)
    df,            \* main: df
    geo,           \* main: geo
    geo_again,     \* the deduplication applied to its own output
    merged_df,     \* main: merged_df
    year_range,    \* main: year_range, <<start, end>>
    nb_countries,  \* main: nb_countries
    show_raw,      \* state of the checkbox "Show raw data"
    top_df,        \* main: top_df
    geo_df,        \* main: geo_df
    continent_df,  \* main: continent_df
    choropleth_df, \* main: choropleth_df
    raw_df,        \* main: the table handed to st.dataframe
    fig,           \* the figure last built by a chart adapter
    steps,         \* the steps of the current render pass, in order
    errors         \* st.error calls of the current render pass

vars == <<co2_file, geo_file, cache, runs, calls, pass, pc, df, geo, geo_again,
          merged_df, year_range, nb_countries, show_raw, top_df, geo_df,
          continent_df, choropleth_df, raw_df, fig, steps, errors>>

----------------------------------------------------------------------------
(* Bounds of the model *)

MaxRows == 3          \* rows of an emissions table given to the aggregators
MaxGeoRows == 3       \* rows of a raw geography table given to the deduplication
MaxJoinRows == 2      \* rows of each table given to the merge
MaxN == 2             \* largest result count n given to the aggregators
MaxPasses == 2        \* render passes of one process
MaxFileRows == 2      \* rows of the emissions file of a process

----------------------------------------------------------------------------
(* Values *)

NaN == "NaN"
\* A file on disk: present with its rows, or absent (open raises FileNotFoundError).
NoFile == [present |-> FALSE, rows |-> << >>]
File(t) == [present |-> TRUE, rows |-> t]
EmptyFrame == << >>

\* Every string of the model, in ascending (lexicographic) order.
Alphabet == <<"A", "AAA", "Asia", "B", "BBB", "Europe">>

Rank(s) == CHOOSE i \in DOMAIN Alphabet : Alphabet[i] = s

CountryNames == {"A", "B"}
CodeOf == [n \in CountryNames |-> IF n = "A" THEN "AAA" ELSE "BBB"]
CountryCodes == {CodeOf[n] : n \in CountryNames}
Continents == {"Asia", "Europe"}
Years == {2008, 2009}
Values == {1, 3, 5}
CountryNumbers == {4, 8}

EmissionRow ==
    {[Country_Name |-> n, Country_Code |-> CodeOf[n], Year |-> y, CO2_Per_Capita |-> v] :
        n \in CountryNames, y \in Years, v \in Values}

RawGeoRow ==
    [Continent_Name : Continents, Three_Letter_Country_Code : CountryCodes,
     Country_Number : CountryNumbers]

SeqsUpTo(S, n) == UNION {[1..k -> S] : k \in 0..n}

Min(a, b) == IF a <= b THEN a ELSE b
Max(a, b) == IF a >= b THEN a ELSE b

----------------------------------------------------------------------------
(* load_geo_data: the projection and the deduplication *)

\* countries[["Continent_Name", "Three_Letter_Country_Code"]]
Project(t) ==
    [i \in DOMAIN t |->
        [Continent_Name |-> t[i].Continent_Name,
         Three_Letter_Country_Code |-> t[i].Three_Letter_Country_Code]]

\* A faulty deduplication: the kept rows are collected in reverse order.
DropDuplicatesReversed(t) ==
    LET keep(i) == \A j \in 1..(i - 1) : t[j] # t[i]
        F[i \in 0..Len(t)] ==
            IF i = 0 THEN << >>
            ELSE IF keep(i) THEN <<t[i]>> \o F[i - 1] ELSE F[i - 1]
    IN F[Len(t)]

\* A faulty deduplication: keep="last", a row stays unless an equal row follows it.
DropDuplicatesKeepLast(t) ==
    LET keep(i) == \A j \in (i + 1)..Len(t) : t[j] # t[i]
        F[i \in 0..Len(t)] ==
            IF i = 0 THEN << >>
            ELSE IF keep(i) THEN Append(F[i - 1], t[i]) ELSE F[i - 1]
    IN F[Len(t)]

\* DataFrame.drop_duplicates(), keep="first": a row stays unless an equal row precedes it.
DropDuplicates(t) ==
    LET keep(i) == \A j \in 1..(i - 1) : t[j] # t[i]
        F[i \in 0..Len(t)] ==
            IF i = 0 THEN << >>
            ELSE IF keep(i) THEN Append(F[i - 1], t[i]) ELSE F[i - 1]
    IN F[Len(t)]

\* The try-branch of load_geo_data.
ReadGeo(raw) == DropDuplicates(Project(raw))

\* load_geo_data's body: the except-branch returns pd.DataFrame().
LoadGeoBody(file) == IF file.present THEN ReadGeo(file.rows) ELSE EmptyFrame

----------------------------------------------------------------------------
(* merge_datasets *)

GeoColumns(continent, code) ==
    [c \in {"Continent_Name", "Three_Letter_Country_Code"} |->
        IF c = "Continent_Name" THEN continent ELSE code]

\* One row of the join: the left row's columns, then the right row's.
JoinRow(l, r) == [c \in DOMAIN l \cup DOMAIN r |-> IF c \in DOMAIN l THEN l[c] ELSE r[c]]

\* The rows a left row yields under how="left": one per right row with an equal
\* key, in the right table's order, or one with the right columns missing.
Matches(l, right) ==
    LET hit == SelectSeq(right, LAMBDA r : r.Three_Letter_Country_Code = l.Country_Code)
    IN IF hit = << >>
       THEN <<JoinRow(l, GeoColumns(NaN, NaN))>>
       ELSE [j \in DOMAIN hit |-> JoinRow(l, hit[j])]

\* df.merge(geo, left_on="Country Code", right_on="Three_Letter_Country_Code",
\* how="left"): the left table's order is kept.
merge_datasets(left, right) ==
    LET F[i \in 0..Len(left)] ==
            IF i = 0 THEN << >> ELSE F[i - 1] \o Matches(left[i], right)
    IN F[Len(left)]

----------------------------------------------------------------------------
(* get_top_emitters, get_top_emitters_with_geo *)

\* A faulty filter: the end year is excluded.
FilterYearsExclusive(t, start_year, end_year) ==
    SelectSeq(t, LAMBDA r : r.Year >= start_year /\ r.Year < end_year)

\* df[(df["Year"] >= start_year) & (df["Year"] <= end_year)]
FilterYears(t, start_year, end_year) ==
    SelectSeq(t, LAMBDA r : r.Year >= start_year /\ r.Year <= end_year)

GCD(a, b) ==
    LET G[x \in 0..Max(a, b), y \in 0..Max(a, b)] == IF y = 0 THEN x ELSE G[y, x % y]
    IN G[a, b]

Fraction(n, d) == [num |-> n \div GCD(n, d), den |-> d \div GCD(n, d)]

\* a >= b, for fractions with positive denominators
FracGeq(a, b) == a.num * b.den >= b.num * a.den

Sum(t) ==
    LET F[i \in 0..Len(t)] == IF i = 0 THEN 0 ELSE F[i - 1] + t[i].CO2_Per_Capita
    IN F[Len(t)]

\* Series.mean() of the value column of a group's rows
Mean(rows) == Fraction(Sum(rows), Len(rows))

KeyOf(r, by) == [i \in DOMAIN by |-> r[by[i]]]

\* Lexicographic order of two keys, column by column.
KeyLess(k1, k2) ==
    \E i \in DOMAIN k1 :
        /\ Rank(k1[i]) < Rank(k2[i])
        /\ \A j \in 1..(i - 1) : k1[j] = k2[j]

\* The keys of a set, ascending.
SortKeys(K) ==
    LET F[S \in SUBSET K] ==
            IF S = {} THEN << >>
            ELSE LET m == CHOOSE k \in S : \A o \in S \ {k} : KeyLess(k, o)
                 IN <<m>> \o F[S \ {m}]
    IN F[K]

\* groupby(by, as_index=False)[value].mean(): sort=True lists the groups in
\* ascending key order, dropna=True leaves out every row with a missing key.
GroupMean(t, by) ==
    LET kept == SelectSeq(t, LAMBDA r : \A i \in DOMAIN by : r[by[i]] # NaN)
        keys == SortKeys({KeyOf(kept[i], by) : i \in DOMAIN kept})
        group(k) == SelectSeq(kept, LAMBDA r : KeyOf(r, by) = k)
        cols == {by[i] : i \in DOMAIN by}
        col(k, c) == k[CHOOSE i \in DOMAIN by : by[i] = c]
    IN [g \in DOMAIN keys |->
           [c \in cols \cup {"CO2_Per_Capita"} |->
               IF c = "CO2_Per_Capita" THEN Mean(group(keys[g])) ELSE col(keys[g], c)]]

\* A faulty order: ascending=True.
Ascending(t) ==
    \A i, j \in DOMAIN t : i < j => t[i].CO2_Per_Capita.num * t[j].CO2_Per_Capita.den
                                      <= t[j].CO2_Per_Capita.num * t[i].CO2_Per_Capita.den

\* The order sort_values(ascending=False) establishes.
Descending(t) ==
    \A i, j \in DOMAIN t : i < j => FracGeq(t[i].CO2_Per_Capita, t[j].CO2_Per_Capita)

Reorder(t, p) == [i \in DOMAIN t |-> t[p[i]]]

\* sort_values(value, ascending=False), kind="quicksort": not a stable sort, so
\* rows with equal values come out in an order the numpy build decides. The set
\* of the orders it can produce.
SortValues(t) ==
    {Reorder(t, p) : p \in {q \in Permutations(DOMAIN t) : Descending(Reorder(t, q))}}

\* DataFrame.head(n)
head(t, n) ==
    IF n >= 0 THEN SubSeq(t, 1, Min(n, Len(t)))
    ELSE SubSeq(t, 1, Max(Len(t) + n, 0))

\* The tables get_top_emitters can return.
get_top_emitters(t, start_year, end_year, n) ==
    {head(s, n) :
        s \in SortValues(GroupMean(FilterYears(t, start_year, end_year), <<"Country_Name">>))}

\* The tables get_top_emitters_with_geo can return.
get_top_emitters_with_geo(t, start_year, end_year, n) ==
    {head(s, n) :
        s \in SortValues(GroupMean(FilterYears(t, start_year, end_year),
                                   <<"Country_Name", "Country_Code", "Continent_Name">>))}

----------------------------------------------------------------------------
(* Specifications of the functions alone: the deduplication *)

CachedFunctions == {"load_co2_data", "load_geo_data", "merge_datasets"}

\* What a specification of the functions alone leaves untouched.
Quiet ==
    /\ cache = [f \in CachedFunctions |-> {}]
    /\ runs = [f \in CachedFunctions |-> 0]
    /\ calls = [f \in CachedFunctions |-> 0]
    /\ pass = 0 /\ show_raw = FALSE
    /\ continent_df = EmptyFrame /\ choropleth_df = EmptyFrame /\ raw_df = EmptyFrame
    /\ fig = [kind |-> "none"] /\ steps = << >> /\ errors = 0
    /\ co2_file = NoFile
    /\ geo = EmptyFrame /\ geo_again = EmptyFrame /\ merged_df = EmptyFrame
    /\ top_df = EmptyFrame /\ geo_df = EmptyFrame

InitGeo ==
    /\ Quiet
    /\ df = EmptyFrame /\ year_range = <<2008, 2009>> /\ nb_countries = 1
    /\ geo_file \in {File(t) : t \in SeqsUpTo(RawGeoRow, MaxGeoRows)}
    /\ pc = "geo_start"

GeoDedup ==
    /\ pc = "geo_start"
    /\ geo' = LoadGeoBody(geo_file)
    /\ pc' = "geo_loaded"
    /\ UNCHANGED <<co2_file, geo_file, cache, runs, calls, pass, df, geo_again,
                   merged_df, year_range, nb_countries, show_raw, top_df, geo_df,
                   continent_df, choropleth_df, raw_df, fig, steps, errors>>

GeoDedupAgain ==
    /\ pc = "geo_loaded"
    /\ geo_again' = LoadGeoBody(File(geo))
    /\ pc' = "geo_again"
    /\ UNCHANGED <<co2_file, geo_file, cache, runs, calls, pass, df, geo,
                   merged_df, year_range, nb_countries, show_raw, top_df, geo_df,
                   continent_df, choropleth_df, raw_df, fig, steps, errors>>

NextGeo == GeoDedup \/ GeoDedupAgain

SpecGeo == InitGeo /\ [][NextGeo]_vars

----------------------------------------------------------------------------
(* Specifications of the functions alone: merge and aggregation, applied as  *)
(* main applies them: geo from load_geo_data, merged_df from merge_datasets, *)
(* top_df from df and geo_df from merged_df, with one year range and count.  *)

\* A raw geography row with one fixed value in the column the projection drops.
PlainGeoRow == {r \in RawGeoRow : r.Country_Number = 4}

InitJoin ==
    /\ Quiet
    /\ geo_file \in {File(t) : t \in SeqsUpTo(PlainGeoRow, MaxJoinRows)}
    /\ df \in SeqsUpTo(EmissionRow, MaxJoinRows)
    /\ year_range \in Years \X Years
    /\ nb_countries \in 1..MaxN
    /\ pc = "geo_start"

FnMerge ==
    /\ pc = "geo_loaded"
    /\ merged_df' = merge_datasets(df, geo)
    /\ pc' = "fn_merged"
    /\ UNCHANGED <<co2_file, geo_file, cache, runs, calls, pass, df, geo, geo_again,
                   year_range, nb_countries, show_raw, top_df, geo_df,
                   continent_df, choropleth_df, raw_df, fig, steps, errors>>

FnTop ==
    /\ pc = "fn_merged"
    /\ top_df' \in get_top_emitters(df, year_range[1], year_range[2], nb_countries)
    /\ pc' = "fn_top"
    /\ UNCHANGED <<co2_file, geo_file, cache, runs, calls, pass, df, geo, geo_again,
                   merged_df, year_range, nb_countries, show_raw, geo_df,
                   continent_df, choropleth_df, raw_df, fig, steps, errors>>

FnTopGeo ==
    /\ pc = "fn_top"
    /\ geo_df' \in get_top_emitters_with_geo(merged_df, year_range[1], year_range[2],
                                            nb_countries)
    /\ pc' = "fn_done"
    /\ UNCHANGED <<co2_file, geo_file, cache, runs, calls, pass, df, geo, geo_again,
                   merged_df, year_range, nb_countries, show_raw, top_df,
                   continent_df, choropleth_df, raw_df, fig, steps, errors>>

NextFn == GeoDedup \/ FnMerge \/ FnTop \/ FnTopGeo

SpecJoin == InitJoin /\ [][NextFn]_vars

\* The geographies the aggregation is checked over: every country matched, and
\* country B unmatched.
AggGeography ==
    LET g(c, k) == [Continent_Name |-> c, Three_Letter_Country_Code |-> k,
                    Country_Number |-> 4]
    IN {<<g("Asia", "AAA"), g("Europe", "BBB")>>, <<g("Asia", "AAA")>>}

InitAgg ==
    /\ Quiet
    /\ geo_file \in {File(t) : t \in AggGeography}
    /\ df \in SeqsUpTo(EmissionRow, MaxRows)
    /\ year_range \in Years \X Years
    /\ nb_countries \in 1..MaxN
    /\ pc = "geo_start"

SpecAgg == InitAgg /\ [][NextFn]_vars

----------------------------------------------------------------------------
(* Presentation adapters *)

None == "None"

\* create_bar_chart
create_bar_chart(t, color_col, title) ==
    [kind |-> "bar", x |-> "Country Name", y |-> "CO2 Per Capita (metric tons)",
     color |-> color_col, title |-> title, xaxis_tickangle |-> -45, height |-> 500,
     showlegend |-> (color_col # None), data |-> t]

\* create_map_chart
create_map_chart(t, title) ==
    [kind |-> "scatter_geo", locations |-> "Country Code",
     size |-> "CO2 Per Capita (metric tons)", hover_name |-> "Country Name",
     title |-> title, projection |-> "natural earth", height |-> 500, data |-> t]

\* create_choropleth
create_choropleth(t, title) ==
    [kind |-> "choropleth", locations |-> "Country Code",
     color |-> "CO2 Per Capita (metric tons)", hover_name |-> "Country Name",
     color_continuous_scale |-> "Reds", title |-> title, height |-> 500, data |-> t]

----------------------------------------------------------------------------
(* The process: render passes of main over st.cache_data *)

CO2_PATH == "data/CO2_per_capita.csv"
GEO_PATH == "data/geo_data.csv"

\* The slider's default value and the selectbox's options and default (index=2,
\* counted from 0, is the third option).
DefaultYearRange == <<2008, 2011>>
CountryOptions == <<3, 5, 10, 20, 30>>
DefaultCountryIndex == 3

\* load_co2_data's body: the rows of the file, or pd.DataFrame() when it is absent.
LoadCo2Body(file) == IF file.present THEN file.rows ELSE EmptyFrame

\* st.error calls of a loader's body: one, in the except-branch.
LoaderErrors(file) == IF file.present THEN 0 ELSE 1

\* A faulty cache: no call finds its entry.
CacheNeverHit(fn, key) == FALSE

\* st.cache_data: whether a call of fn with this argument finds an entry.
CacheHit(fn, key) == \E e \in cache[fn] : e.key = key

CacheEntry(fn, key) == CHOOSE e \in cache[fn] : e.key = key

\* A call of a cached function: the entry's value and recorded st.error calls on a
\* hit; on a miss the body runs and its result is stored (no ttl, no max_entries:
\* entries are only ever added).
CachedCall(fn, key, val, msgs) ==
    /\ calls' = [calls EXCEPT ![fn] = @ + 1]
    /\ IF CacheHit(fn, key)
       THEN UNCHANGED <<cache, runs>>
       ELSE /\ runs' = [runs EXCEPT ![fn] = @ + 1]
            /\ cache' = [cache EXCEPT ![fn] = @ \cup {[key |-> key, val |-> val, msgs |-> msgs]}]

Returned(fn, key, val) == IF CacheHit(fn, key) THEN CacheEntry(fn, key).val ELSE val

Replayed(fn, key, msgs) == IF CacheHit(fn, key) THEN CacheEntry(fn, key).msgs ELSE msgs

\* A faulty guard: "and" for "or".
BothEmpty(d, g) == d = EmptyFrame /\ g = EmptyFrame

\* main: df.empty or geo.empty
EitherEmpty(d, g) == d = EmptyFrame \/ g = EmptyFrame

\* A faulty data explorer: the raw table is shown whatever the checkbox says.
AlwaysRawData(checked) == "agg_raw"

\* main: if st.checkbox("Show raw data"): ... ; the function returns otherwise.
AfterCheckbox(checked) == IF checked THEN "agg_raw" ELSE "idle"

MinYear(t) == CHOOSE y \in {t[i].Year : i \in DOMAIN t} : \A i \in DOMAIN t : y <= t[i].Year
MaxYear(t) == CHOOSE y \in {t[i].Year : i \in DOMAIN t} : \A i \in DOMAIN t : y >= t[i].Year

\* st.slider raises unless its default lies between min_value and max_value.
SliderAccepts(t) == MinYear(t) <= DefaultYearRange[1] /\ DefaultYearRange[2] <= MaxYear(t)

\* The years the user picks slider ends from.
SliderYears == {2008, 2011}

\* The values the slider can return: the default in the first pass, then any
\* range the user has set.
SliderValues(t) ==
    IF pass = 1 THEN {DefaultYearRange}
    ELSE {yr \in SliderYears \X SliderYears :
            MinYear(t) <= yr[1] /\ yr[1] <= yr[2] /\ yr[2] <= MaxYear(t)}

SelectboxValues ==
    IF pass = 1 THEN {CountryOptions[DefaultCountryIndex]}
    ELSE {CountryOptions[i] : i \in DOMAIN CountryOptions}

CheckboxValues == IF pass = 1 THEN {FALSE} ELSE BOOLEAN

\* The emissions files of a process: years 2008 and 2011, one value.
FileEmissionRow ==
    {[Country_Name |-> n, Country_Code |-> CodeOf[n], Year |-> y, CO2_Per_Capita |-> 1] :
        n \in CountryNames, y \in {2008, 2011}}

Init ==
    /\ co2_file \in {NoFile} \cup {File(t) : t \in SeqsUpTo(FileEmissionRow, MaxFileRows)}
    /\ geo_file \in {NoFile, File(<< >>)} \cup {File(t) : t \in AggGeography}
    /\ cache = [f \in CachedFunctions |-> {}]
    /\ runs = [f \in CachedFunctions |-> 0]
    /\ calls = [f \in CachedFunctions |-> 0]
    /\ pass = 0 /\ pc = "idle"
    /\ df = EmptyFrame /\ geo = EmptyFrame /\ geo_again = EmptyFrame
    /\ merged_df = EmptyFrame
    /\ year_range = DefaultYearRange
    /\ nb_countries = CountryOptions[DefaultCountryIndex]
    /\ show_raw = FALSE
    /\ top_df = EmptyFrame /\ geo_df = EmptyFrame /\ continent_df = EmptyFrame
    /\ choropleth_df = EmptyFrame /\ raw_df = EmptyFrame
    /\ fig = [kind |-> "none"] /\ steps = << >> /\ errors = 0

\* Streamlit runs main: at start-up, and again on every interaction.
StartPass ==
    /\ pc = "idle"
    /\ pass < MaxPasses
    /\ pass' = pass + 1
    /\ pc' = "load_co2"
    /\ steps' = << >>
    /\ errors' = 0
    /\ UNCHANGED <<co2_file, geo_file, cache, runs, calls, df, geo, geo_again, merged_df,
                   year_range, nb_countries, show_raw, top_df, geo_df, continent_df,
                   choropleth_df, raw_df, fig>>

\* df = load_co2_data(CO2_PATH)
LoadCo2 ==
    /\ pc = "load_co2"
    /\ CachedCall("load_co2_data", CO2_PATH, LoadCo2Body(co2_file), LoaderErrors(co2_file))
    /\ df' = Returned("load_co2_data", CO2_PATH, LoadCo2Body(co2_file))
    /\ errors' = errors + Replayed("load_co2_data", CO2_PATH, LoaderErrors(co2_file))
    /\ steps' = Append(steps, "load")
    /\ pc' = "load_geo"
    /\ UNCHANGED <<co2_file, geo_file, pass, geo, geo_again, merged_df, year_range,
                   nb_countries, show_raw, top_df, geo_df, continent_df, choropleth_df,
                   raw_df, fig>>

\* geo = load_geo_data(GEO_PATH)
LoadGeo ==
    /\ pc = "load_geo"
    /\ CachedCall("load_geo_data", GEO_PATH, LoadGeoBody(geo_file), LoaderErrors(geo_file))
    /\ geo' = Returned("load_geo_data", GEO_PATH, LoadGeoBody(geo_file))
    /\ errors' = errors + Replayed("load_geo_data", GEO_PATH, LoaderErrors(geo_file))
    /\ steps' = Append(steps, "load")
    /\ pc' = "guard"
    /\ UNCHANGED <<co2_file, geo_file, pass, df, geo_again, merged_df, year_range,
                   nb_countries, show_raw, top_df, geo_df, continent_df, choropleth_df,
                   raw_df, fig>>

\* if df.empty or geo.empty: st.error(...); return
Guard ==
    /\ pc = "guard"
    /\ IF EitherEmpty(df, geo)
       THEN /\ errors' = errors + 1
            /\ steps' = steps \o <<"guard", "abort">>
            /\ pc' = "idle"
       ELSE /\ errors' = errors
            /\ steps' = Append(steps, "guard")
            /\ pc' = "merge"
    /\ UNCHANGED <<co2_file, geo_file, cache, runs, calls, pass, df, geo, geo_again,
                   merged_df, year_range, nb_countries, show_raw, top_df, geo_df,
                   continent_df, choropleth_df, raw_df, fig>>

\* merged_df = merge_datasets(df, geo)
Merge ==
    /\ pc = "merge"
    /\ CachedCall("merge_datasets", <<df, geo>>, merge_datasets(df, geo), 0)
    /\ merged_df' = Returned("merge_datasets", <<df, geo>>, merge_datasets(df, geo))
    /\ steps' = Append(steps, "merge")
    /\ pc' = "sidebar"
    /\ UNCHANGED <<co2_file, geo_file, pass, df, geo, geo_again, year_range,
                   nb_countries, show_raw, top_df, geo_df, continent_df, choropleth_df,
                   raw_df, fig, errors>>

\* with st.sidebar: year_range = st.slider(...); nb_countries = st.selectbox(...)
Sidebar ==
    /\ pc = "sidebar"
    /\ IF SliderAccepts(df)
       THEN /\ year_range' \in SliderValues(df)
            /\ nb_countries' \in SelectboxValues
            /\ steps' = Append(steps, "params")
            /\ pc' = "metrics"
       ELSE /\ UNCHANGED <<year_range, nb_countries>>
            /\ steps' = Append(steps, "exception")
            /\ pc' = "idle"
    /\ UNCHANGED <<co2_file, geo_file, cache, runs, calls, pass, df, geo, geo_again,
                   merged_df, show_raw, top_df, geo_df, continent_df, choropleth_df,
                   raw_df, fig, errors>>

\* The three st.metric calls.
Metrics ==
    /\ pc = "metrics"
    /\ steps' = Append(steps, "metrics")
    /\ pc' = "agg_top"
    /\ UNCHANGED <<co2_file, geo_file, cache, runs, calls, pass, df, geo, geo_again,
                   merged_df, year_range, nb_countries, show_raw, top_df, geo_df,
                   continent_df, choropleth_df, raw_df, fig, errors>>

\* An aggregator call of main at position from.
Aggregate(from, to) ==
    /\ pc = from
    /\ steps' = Append(steps, "aggregate")
    /\ pc' = to
    /\ UNCHANGED <<co2_file, geo_file, cache, runs, calls, pass, df, geo, geo_again,
                   merged_df, year_range, nb_countries, show_raw, fig, errors>>

\* top_df = get_top_emitters(df, year_range[0], year_range[1], nb_countries)
AggTop ==
    /\ Aggregate("agg_top", "adapt_top")
    /\ top_df' \in get_top_emitters(df, year_range[1], year_range[2], nb_countries)
    /\ UNCHANGED <<geo_df, continent_df, choropleth_df, raw_df>>

\* geo_df = get_top_emitters_with_geo(merged_df, ...)
AggMap ==
    /\ Aggregate("agg_map", "adapt_map")
    /\ geo_df' \in get_top_emitters_with_geo(merged_df, year_range[1], year_range[2],
                                            nb_countries)
    /\ UNCHANGED <<top_df, continent_df, choropleth_df, raw_df>>

\* continent_df = get_top_emitters_with_geo(merged_df, ...)
AggContinent ==
    /\ Aggregate("agg_continent", "adapt_continent")
    /\ continent_df' \in get_top_emitters_with_geo(merged_df, year_range[1], year_range[2],
                                                  nb_countries)
    /\ UNCHANGED <<top_df, geo_df, choropleth_df, raw_df>>

\* choropleth_df = get_top_emitters_with_geo(merged_df, ...)
AggChoropleth ==
    /\ Aggregate("agg_choropleth", "adapt_choropleth")
    /\ choropleth_df' \in get_top_emitters_with_geo(merged_df, year_range[1],
                                                   year_range[2], nb_countries)
    /\ UNCHANGED <<top_df, geo_df, continent_df, raw_df>>

\* The argument of st.dataframe: get_top_emitters_with_geo(merged_df, ...)
AggRaw ==
    /\ Aggregate("agg_raw", "show_raw")
    /\ raw_df' \in get_top_emitters_with_geo(merged_df, year_range[1], year_range[2],
                                            nb_countries)
    /\ UNCHANGED <<top_df, geo_df, continent_df, choropleth_df>>

\* A chart adapter call of main at position from.
Adapt(from, to, figure) ==
    /\ pc = from
    /\ fig' = figure
    /\ steps' = Append(steps, "adapt")
    /\ pc' = to
    /\ UNCHANGED <<co2_file, geo_file, cache, runs, calls, pass, df, geo, geo_again,
                   merged_df, year_range, nb_countries, show_raw, top_df, geo_df,
                   continent_df, choropleth_df, raw_df, errors>>

AdaptTop ==
    Adapt("adapt_top", "show_top",
          create_bar_chart(top_df, None, "Top Emitters by Average CO2 per Capita"))

AdaptMap ==
    Adapt("adapt_map", "show_map", create_map_chart(geo_df, "Top Emitters on Map"))

AdaptContinent ==
    Adapt("adapt_continent", "show_continent",
          create_bar_chart(continent_df, "Continent_Name", "Top Emitters Colored by Continent"))

AdaptChoropleth ==
    Adapt("adapt_choropleth", "show_choropleth",
          create_choropleth(choropleth_df, "CO2 per Capita"))

\* Where main continues after each st.plotly_chart.
AfterChart ==
    [p \in {"show_top", "show_map", "show_continent", "show_choropleth"} |->
        CASE p = "show_top" -> "agg_map"
          [] p = "show_map" -> "agg_continent"
          [] p = "show_continent" -> "agg_choropleth"
          [] p = "show_choropleth" -> "checkbox"]

\* st.plotly_chart(fig, use_container_width=True)
PlotlyChart ==
    /\ pc \in DOMAIN AfterChart
    /\ steps' = Append(steps, "display")
    /\ pc' = AfterChart[pc]
    /\ UNCHANGED <<co2_file, geo_file, cache, runs, calls, pass, df, geo, geo_again,
                   merged_df, year_range, nb_countries, show_raw, top_df, geo_df,
                   continent_df, choropleth_df, raw_df, fig, errors>>

\* if st.checkbox("Show raw data"):
Checkbox ==
    /\ pc = "checkbox"
    /\ show_raw' \in CheckboxValues
    /\ pc' = AfterCheckbox(show_raw')
    /\ steps' = IF pc' = "idle" THEN Append(steps, "end") ELSE steps
    /\ UNCHANGED <<co2_file, geo_file, cache, runs, calls, pass, df, geo, geo_again,
                   merged_df, year_range, nb_countries, top_df, geo_df,
                   continent_df, choropleth_df, raw_df, fig, errors>>

\* st.dataframe(..., use_container_width=True), the last statement of main
Dataframe ==
    /\ pc = "show_raw"
    /\ steps' = steps \o <<"display", "end">>
    /\ pc' = "idle"
    /\ UNCHANGED <<co2_file, geo_file, cache, runs, calls, pass, df, geo, geo_again,
                   merged_df, year_range, nb_countries, show_raw, top_df, geo_df,
                   continent_df, choropleth_df, raw_df, fig, errors>>

Next ==
    \/ StartPass \/ LoadCo2 \/ LoadGeo \/ Guard \/ Merge \/ Sidebar \/ Metrics
    \/ AggTop \/ AdaptTop \/ AggMap \/ AdaptMap \/ AggContinent \/ AdaptContinent
    \/ AggChoropleth \/ AdaptChoropleth \/ PlotlyChart \/ Checkbox \/ AggRaw \/ Dataframe

Spec == Init /\ [][Next]_vars

----------------------------------------------------------------------------
(* Properties of the deduplication (SpecGeo) *)

PairOf(r) == <<r.Continent_Name, r.Three_Letter_Country_Code>>

\* The index of the first row of the raw table with the pair of row r.
FirstOccurrence(raw, r) ==
    CHOOSE i \in DOMAIN raw :
        /\ PairOf(raw[i]) = PairOf(r)
        /\ \A j \in 1..(i - 1) : PairOf(raw[j]) # PairOf(r)

\* C6: the projection-and-deduplication step applied to its own output yields
\* the same table: the same rows in the same order.
DedupIdempotent == pc = "geo_again" => geo_again = geo

\* C6: the step has been applied twice, the first time to a table with duplicates.
DedupIdempotentWitness ==
    /\ pc = "geo_again"
    /\ Len(geo) = 2
    /\ Len(geo_file.rows) = 3
    /\ geo_again = geo

\* C7: the output of load_geo_data has exactly the columns (continent, code),
\* holds each distinct pair of the input exactly once, and lists the pairs in the
\* order of their first occurrence in the input.
DedupFirstOccurrence ==
    pc \in {"geo_loaded", "geo_again"} =>
        LET raw == geo_file.rows
        IN /\ \A i \in DOMAIN geo :
                DOMAIN geo[i] = {"Continent_Name", "Three_Letter_Country_Code"}
           /\ {PairOf(geo[i]) : i \in DOMAIN geo} = {PairOf(raw[i]) : i \in DOMAIN raw}
           /\ \A i, j \in DOMAIN geo : i # j => PairOf(geo[i]) # PairOf(geo[j])
           /\ \A i, j \in DOMAIN geo :
                i < j => FirstOccurrence(raw, geo[i]) < FirstOccurrence(raw, geo[j])
           /\ (/\ Len(raw) = 2
               /\ PairOf(raw[1]) = <<"Asia", "AAA">>
               /\ PairOf(raw[2]) = <<"Asia", "AAA">>)
              => geo = <<[Continent_Name |-> "Asia", Three_Letter_Country_Code |-> "AAA"]>>

\* C7: a pair occurs first, another follows, and the first occurs again in a row
\* that differs in the dropped column.
DedupFirstOccurrenceWitness ==
    /\ pc = "geo_loaded"
    /\ Len(geo_file.rows) = 3
    /\ PairOf(geo_file.rows[1]) = PairOf(geo_file.rows[3])
    /\ geo_file.rows[1] # geo_file.rows[3]
    /\ PairOf(geo_file.rows[1]) # PairOf(geo_file.rows[2])
    /\ Len(geo) = 2
    /\ PairOf(geo[1]) = PairOf(geo_file.rows[1])

----------------------------------------------------------------------------
(* Properties of the merge and of the aggregation (SpecJoin, SpecAgg) *)

InRange(r) == year_range[1] <= r.Year /\ r.Year <= year_range[2]

\* The indices of the rows of table t in the year range with country name n.
RowsOf(t, n) == {i \in DOMAIN t : t[i].Country_Name = n /\ InRange(t[i])}

\* The sum of the values of the rows of t with an index in S.
SumOver(t, S) ==
    LET F[X \in SUBSET S] ==
            IF X = {} THEN 0
            ELSE LET i == CHOOSE i \in X : TRUE IN t[i].CO2_Per_Capita + F[X \ {i}]
    IN F[S]

MeanGeq(r1, r2) ==
    r1.CO2_Per_Capita.num * r2.CO2_Per_Capita.den
        >= r2.CO2_Per_Capita.num * r1.CO2_Per_Capita.den

MeanEq(r1, r2) ==
    r1.CO2_Per_Capita.num * r2.CO2_Per_Capita.den
        = r2.CO2_Per_Capita.num * r1.CO2_Per_Capita.den

\* The index in table t of the first row in the year range with country name n.
FirstSeen(t, n) == CHOOSE i \in RowsOf(t, n) : \A j \in RowsOf(t, n) : i <= j

\* C1 as stated: the merged table has as many rows as the emissions table, each
\* emissions row retained exactly once (row i of the merge is row i of df).
MergeKeepsRowCount ==
    pc \in {"fn_merged", "fn_top", "fn_done"} =>
        /\ Len(merged_df) = Len(df)
        /\ \A i \in DOMAIN df : \A c \in DOMAIN df[i] : merged_df[i][c] = df[i][c]

GeoKey(r) == <<r.Country_Name, r.Country_Code, r.Continent_Name>>

\* C2 as stated: each aggregator returns min(n, number of groups with a row in
\* the year range) rows, a group being a distinct value of the grouping columns.
AggregatorRowCount ==
    pc = "fn_done" =>
        /\ Len(top_df) =
             Min(nb_countries,
                 Cardinality({df[i].Country_Name : i \in {j \in DOMAIN df : InRange(df[j])}}))
        /\ Len(geo_df) =
             Min(nb_countries,
                 Cardinality({GeoKey(merged_df[i]) :
                                i \in {j \in DOMAIN merged_df : InRange(merged_df[j])}}))

\* C10 as stated: with n at least the number of countries, the geo-aware
\* aggregation of the merged table has exactly one row for each country of the
\* plain aggregation of the emissions table, with the same mean.
GeoAwareMatchesPlain ==
    (/\ pc = "fn_done"
     /\ nb_countries >= Cardinality({df[i].Country_Name : i \in DOMAIN df}))
    => \A i \in DOMAIN top_df :
          /\ Cardinality({j \in DOMAIN geo_df :
                            geo_df[j].Country_Name = top_df[i].Country_Name}) = 1
          /\ \A j \in DOMAIN geo_df :
                geo_df[j].Country_Name = top_df[i].Country_Name
                    => geo_df[j].CO2_Per_Capita = top_df[i].CO2_Per_Capita

\* C4 as stated: the rows of an aggregation are ordered by mean descending, and
\* two groups with equal mean appear in the order in which their first row in
\* the year range occurs in the source table.
TiesInFirstSeenOrder ==
    pc = "fn_done" =>
        /\ \A i, j \in DOMAIN top_df :
            i < j => /\ MeanGeq(top_df[i], top_df[j])
                     /\ MeanEq(top_df[i], top_df[j])
                          => FirstSeen(df, top_df[i].Country_Name)
                               < FirstSeen(df, top_df[j].Country_Name)
        /\ \A i, j \in DOMAIN geo_df :
            i < j => /\ MeanGeq(geo_df[i], geo_df[j])
                     /\ MeanEq(geo_df[i], geo_df[j])
                          => FirstSeen(merged_df, geo_df[i].Country_Name)
                               < FirstSeen(merged_df, geo_df[j].Country_Name)

\* C4, amended: the rows of an aggregation are ordered by mean descending (the
\* order of two groups with equal mean is not determined).
SortedByMeanDescending ==
    /\ pc \in {"fn_top", "fn_done"} =>
        \A i, j \in DOMAIN top_df : i < j => MeanGeq(top_df[i], top_df[j])
    /\ pc = "fn_done" =>
        \A i, j \in DOMAIN geo_df : i < j => MeanGeq(geo_df[i], geo_df[j])

\* C4: both aggregations return two groups with different means, the group that
\* is first in key order and first in the source table having the smaller mean.
SortedByMeanDescendingWitness ==
    /\ pc = "fn_done"
    /\ Len(top_df) = 2 /\ ~MeanEq(top_df[1], top_df[2])
    /\ Len(geo_df) = 2 /\ ~MeanEq(geo_df[1], geo_df[2])
    /\ top_df[1].Country_Name = "B" /\ geo_df[1].Country_Name = "B"
    /\ df[1].Country_Name = "A"

Scenario ==
    LET row(n, y, v) == [Country_Name |-> n, Country_Code |-> CodeOf[n], Year |-> y,
                         CO2_Per_Capita |-> v]
    IN <<row("A", 2008, 1), row("A", 2009, 3), row("B", 2008, 5)>>

ScenarioResult ==
    <<[Country_Name |-> "B", CO2_Per_Capita |-> [num |-> 5, den |-> 1]],
      [Country_Name |-> "A", CO2_Per_Capita |-> [num |-> 2, den |-> 1]]>>

\* C5: each row of get_top_emitters holds the arithmetic mean of the value over
\* exactly its country's rows with start <= Year <= end; a group of one row has
\* that row's value; and the scenario of three rows, range (2008, 2009) and n = 2
\* yields (B, 5.0), (A, 2.0) in that order.
MeanOverRange ==
    pc \in {"fn_top", "fn_done"} =>
        /\ \A i \in DOMAIN top_df :
            LET rows == RowsOf(df, top_df[i].Country_Name)
                mean == top_df[i].CO2_Per_Capita
            IN /\ rows # {}
               /\ mean.den > 0
               /\ mean.num * Cardinality(rows) = mean.den * SumOver(df, rows)
               /\ Cardinality(rows) = 1 =>
                    \A r \in rows : mean = [num |-> df[r].CO2_Per_Capita, den |-> 1]
        /\ (df = Scenario /\ year_range = <<2008, 2009>> /\ nb_countries = 2)
            => top_df = ScenarioResult

\* C5: the scenario has been aggregated.
MeanOverRangeWitness ==
    /\ pc = "fn_top"
    /\ df = Scenario /\ year_range = <<2008, 2009>> /\ nb_countries = 2
    /\ top_df = ScenarioResult

----------------------------------------------------------------------------
(* Properties of the render passes (Spec) *)

Count(event) == Len(SelectSeq(steps, LAMBDA e : e = event))

\* The render pass has run to the end of main.
Completed == pc = "idle" /\ steps # << >> /\ steps[Len(steps)] = "end"

\* C3: when the emissions file or the geography file is missing, the loader of
\* the missing file returns an empty table, and the render pass ends at the guard
\* after an error is shown: merge_datasets, the aggregators, the chart adapters
\* and the displays are never invoked.
NoPartialRender ==
    (~co2_file.present \/ ~geo_file.present) =>
        /\ pc \in {"idle", "load_co2", "load_geo", "guard"}
        /\ calls["merge_datasets"] = 0
        /\ \A i \in DOMAIN steps : steps[i] \in {"load", "guard", "abort"}
        /\ (~co2_file.present /\ pc \in {"load_geo", "guard"}) => df = << >>
        /\ (~geo_file.present /\ pc = "guard") => geo = << >>
        /\ (pc = "idle" /\ pass > 0) =>
              /\ steps = <<"load", "load", "guard", "abort">>
              /\ errors >= 1

\* C3: a pass has ended at the guard with the emissions file missing and the
\* geography loaded.
NoPartialRenderWitness ==
    /\ ~co2_file.present
    /\ geo_file.present /\ geo # << >>
    /\ pc = "idle" /\ pass > 0
    /\ steps[Len(steps)] = "abort"
    /\ errors >= 1

Phase(e) ==
    CASE e = "load" -> 1
      [] e = "guard" -> 2
      [] e = "merge" -> 3
      [] e = "params" -> 4
      [] e = "metrics" -> 5
      [] e \in {"aggregate", "adapt", "display"} -> 6
      [] e \in {"abort", "exception", "end"} -> 7

\* The steps of a pass occur in the order load, guard, merge, read UI parameters,
\* and then aggregate, adapt, display chart by chart.
StepsInOrder ==
    /\ \A i, j \in DOMAIN steps : i < j => Phase(steps[i]) <= Phase(steps[j])
    /\ \A i \in DOMAIN steps :
        /\ steps[i] = "aggregate" => i > 1 /\ steps[i - 1] \in {"metrics", "display"}
        /\ steps[i] = "adapt" => i > 1 /\ steps[i - 1] = "aggregate"
        /\ steps[i] = "display" => i > 1 /\ steps[i - 1] \in {"adapt", "aggregate"}
    /\ Count("merge") > 0 => Count("load") = 2 /\ Count("guard") = 1

\* C8 as stated: the steps occur in order and an aggregator is invoked at most
\* four times in a pass, whatever the state of the checkbox.
AtMostFourAggregations == StepsInOrder /\ Count("aggregate") <= 4

\* C8, amended: the steps occur in order and an aggregator is invoked at most
\* five times in a pass: four times (once per chart) in a pass that ends with the
\* checkbox off, five times (once more, for the raw table) with the checkbox on.
AggregationsPerPass ==
    /\ StepsInOrder
    /\ Count("aggregate") <= 5
    /\ Completed => Count("aggregate") = (IF show_raw THEN 5 ELSE 4)

\* C8: a pass has run to its end with the checkbox on.
AggregationsPerPassWitness ==
    /\ Completed
    /\ show_raw
    /\ Count("aggregate") = 5
    /\ Count("adapt") = 4
    /\ Count("display") = 5

\* The argument of the call of cached function f that main makes next.
ArgumentOf(f) ==
    CASE f = "load_co2_data" -> CO2_PATH
      [] f = "load_geo_data" -> GEO_PATH
      [] f = "merge_datasets" -> <<df, geo>>

\* C9: across the render passes of a process, the body of a loader or of the
\* merge runs only on a call with an argument not seen before; a call with an
\* argument seen before returns the stored result without running the body; and
\* no entry ever leaves the cache.
BodiesRunOnce ==
    [][\A f \in CachedFunctions :
          LET seen == {e \in cache[f] : e.key = ArgumentOf(f)}
              result == CASE f = "load_co2_data" -> df'
                          [] f = "load_geo_data" -> geo'
                          [] f = "merge_datasets" -> merged_df'
          IN /\ cache[f] \subseteq cache'[f]
             /\ runs'[f] # runs[f] => calls'[f] = calls[f] + 1 /\ seen = {}
             /\ (calls'[f] # calls[f] /\ seen # {}) =>
                    /\ runs'[f] = runs[f]
                    /\ cache'[f] = cache[f]
                    /\ \A e \in seen : result = e.val
             /\ (calls'[f] # calls[f] /\ seen = {}) =>
                    /\ runs'[f] = runs[f] + 1
                    /\ \E e \in cache'[f] : e.key = ArgumentOf(f) /\ e.val = result]_vars

\* C9: every cached function has been called in a second pass and has run once.
BodiesRunOnceWitness ==
    /\ pass = 2
    /\ \A f \in CachedFunctions : calls[f] = 2 /\ runs[f] = 1
    /\ merged_df # << >>

====
